---- MODULE Spec2Model ----
(***************************************************************************)
(* ProceduralMazeGenerator (procedural_maze_generator.py) as a state       *)
(* machine.  One generator object; generate_maze is followed step by step: *)
(* the treasure path is planned, the tree is grown by the recursive        *)
(* _build_maze_tree (its call stack is the variable stack), clues and red  *)
(* herrings are attached node by node, and the finished tree is rendered   *)
(* to the storage sink.  Every random draw is a nondeterministic choice    *)
(* over the values the draw can return.                                    *)
(***************************************************************************)
EXTENDS Integers, Sequences, FiniteSets, TLC

VARIABLES
    config,         \* MazeConfig of the generator (immutable input)
    treasure_path,  \* self.treasure_path
    all_nodes,      \* self.all_nodes; a node is referred to by its index here
    pc,             \* position inside generate_maze
    stack,          \* call stack of _build_maze_tree, innermost frame last
    cursor,         \* loop index of the clue pass / the red-herring pass
    error,          \* exception that left generate_maze, "none" otherwise
    sink_log,       \* storage-sink operations of the current render pass
    base_exists,    \* base_path.exists(): the base location holds a rendered maze
    calls,          \* generate_maze invocations so far
    extras          \* optional draw outcomes taken so far in this call

vars == <<config, treasure_path, all_nodes, pc, stack, cursor, error,
          sink_log, base_exists, calls, extras>>

----------------------------------------------------------------------------
(* Bounds of the exploration *)

MaxDepth == 3        \* config.depth ranges over 1..MaxDepth in Spec
MaxBranching == 2    \* config.branching_factor ranges over 1..MaxBranching
MaxExtras == 1       \* draws per call that may come out the optional way: an
                     \* extra sibling, a recursion into a decoy, and under a
                     \* probability strictly between 0 and 1 a red-herring flag,
                     \* a clue, a fake treasure, a misleading clue
MaxCalls == 2        \* generate_maze invocations on one generator
MaxDeepDepth == 7    \* config.depth ranges over 5..MaxDeepDepth in DeepSpec

----------------------------------------------------------------------------
(* ThemeCatalog: one theme with a reduced vocabulary.  The code reads the  *)
(* tables only through len(), indexing and random.choice.                  *)

Locations == <<"forest">>
Objects == <<"crystal">>
Treasures == <<"MYSTIC_ORB">>
FakeTreasures == <<"fools_gold.txt">>
TreasureName == "GOLDEN_IDOL"

Range(s) == {s[i] : i \in DOMAIN s}

\* str.lower() on the treasure names of the catalog
Lower(s) ==
    CASE s = "MYSTIC_ORB" -> "mystic_orb"
      [] s = "GOLDEN_IDOL" -> "golden_idol"
      [] OTHER -> s

\* random.shuffle(locations): every permutation of the list
Shuffles(s) ==
    {p \in [DOMAIN s -> Range(s)] : \A i, j \in DOMAIN s : i # j => p[i] # p[j]}

\* location_pool = theme_data["locations"] + theme_data["objects"]
LocationPool == Locations \o Objects

Levels == {"zero", "mid", "one"}    \* a probability of 0, strictly between, 1

\* random.random() < p, for random.random() in [0, 1)
Bernoulli(p) ==
    CASE p = "zero" -> {FALSE}
      [] p = "one" -> {TRUE}
      [] OTHER -> BOOLEAN

PuzzleTypes == {"coordinates", "riddle", "pattern", "math", "logic"}

NoName == ""

----------------------------------------------------------------------------
(* MazeNode *)

MazeNode(name, path, depth, flag, herring) ==
    [name |-> name, path |-> path, depth |-> depth, is_treasure_path |-> flag,
     children |-> <<>>, files |-> <<>>, puzzle_type |-> "none",
     clue_content |-> <<>>, red_herring |-> herring]

\* f"{node.path}/{name}" if node.path else name; a path is the sequence of
\* its segments, "" is the empty sequence
ChildPath(node, name) == Append(node.path, name)

\* node.files[key] = value on an insertion-ordered dict
DictPut(files, key, value) ==
    IF \E i \in DOMAIN files : files[i].name = key
    THEN [i \in DOMAIN files |->
            IF files[i].name = key THEN [name |-> key, content |-> value]
            ELSE files[i]]
    ELSE Append(files, [name |-> key, content |-> value])

FileNames(node) == {node.files[i].name : i \in DOMAIN node.files}

----------------------------------------------------------------------------
(* generate_maze: clear, plan the path, create the root *)

\* variant: generate_maze keeps the previous path instead of clearing it
StalePath == treasure_path

\* self.treasure_path = [] at the start of generate_maze
ClearedPath == <<>>

\* _generate_treasure_path appends config.depth names to self.treasure_path
GenerateTreasurePath(prev, locations, treasure, depth) ==
    prev \o [j \in 1..depth |->
        IF j = 1 THEN "entrance"
        ELSE IF j = depth THEN Lower(treasure) \o "_chamber"
        ELSE locations[((j - 1) % Len(locations)) + 1]]

\* root = MazeNode(name="entrance", path="", depth=0)
RootNode == MazeNode("entrance", <<>>, 0, FALSE, FALSE)

Frame(n) == [node |-> n, pos |-> "enter", remaining |-> 0, child_name |-> NoName]

GenerateMaze ==
    /\ pc \in {"idle", "done", "raised"}
    /\ calls < MaxCalls
    /\ \E locations \in Shuffles(Locations), treasure \in Range(Treasures) :
         treasure_path' =
            GenerateTreasurePath(ClearedPath, locations, treasure, config.depth)
    /\ all_nodes' = <<RootNode>>
    /\ stack' = <<Frame(1)>>
    /\ pc' = "build"
    /\ cursor' = 1
    /\ error' = "none"
    /\ sink_log' = <<>>
    /\ calls' = calls + 1
    /\ extras' = 0
    /\ UNCHANGED <<config, base_exists>>

\* get_solution_path
get_solution_path == treasure_path

----------------------------------------------------------------------------
(* _build_maze_tree *)

Top == stack[Len(stack)]
TopNode == all_nodes[Top.node]
Pop == SubSeq(stack, 1, Len(stack) - 1)
SetTop(f) == [stack EXCEPT ![Len(stack)] = f]

\* is_treasure_node = node.depth < len(self.treasure_path) - 1
IsTreasureNode(node) == node.depth < Len(treasure_path) - 1

\* variant: the treasure child is also drawn as a red herring
TreasureChildHerring(node) ==
    MazeNode(treasure_path[node.depth + 2],
             ChildPath(node, treasure_path[node.depth + 2]),
             node.depth + 1, TRUE, TRUE)

\* the treasure child: MazeNode(..., is_treasure_path=True)
TreasureChild(node) ==
    MazeNode(treasure_path[node.depth + 2],
             ChildPath(node, treasure_path[node.depth + 2]),
             node.depth + 1, TRUE, FALSE)

\* a decoy child: MazeNode(..., is_treasure_path=False, red_herring=draw)
DecoyChild(node, name, herring) ==
    MazeNode(name, ChildPath(node, name), node.depth + 1, FALSE, herring)

\* variant: sibling names are not collected, so no draw ever collides
NoExistingNames(node) == {}

\* existing_names = [child.name for child in node.children]
ExistingNames(node) == {all_nodes[node.children[i]].name : i \in DOMAIN node.children}

\* variant: the recursion draw does not decay with depth
GrowDrawNoDecay(node) == BOOLEAN

\* random.random() > node.depth * 0.2: no value below 1.0 exceeds 5 * 0.2,
\* and 0.0 exceeds nothing
GrowDraw(node) == IF node.depth * 2 < 10 THEN BOOLEAN ELSE {FALSE}

\* if node.depth >= self.config.depth: return
BuildReturn ==
    /\ pc = "build" /\ stack # <<>>
    /\ Top.pos = "enter"
    /\ TopNode.depth >= config.depth
    /\ stack' = Pop
    /\ UNCHANGED <<config, treasure_path, all_nodes, pc, cursor, error,
                   sink_log, base_exists, calls, extras>>

\* the treasure child is created, appended and recursed into
BuildTreasureChild ==
    /\ pc = "build" /\ stack # <<>>
    /\ Top.pos = "enter"
    /\ TopNode.depth < config.depth
    /\ IsTreasureNode(TopNode)
    /\ LET c == Len(all_nodes) + 1 IN
         /\ all_nodes' = Append(
               [all_nodes EXCEPT ![Top.node].children = Append(@, c)],
               TreasureChild(TopNode))
         /\ stack' = Append(SetTop([Top EXCEPT !.pos = "num"]), Frame(c))
    /\ UNCHANGED <<config, treasure_path, pc, cursor, error, sink_log, base_exists,
                   calls, extras>>

\* exploration budget: the optional outcomes still allowed in this call
Budget == MaxExtras - extras

\* cost of a draw of probability p that came out true
Cost(p, outcome) == IF outcome /\ p = "mid" THEN 1 ELSE 0

\* num_additional = random.randint(1, branching_factor)
ChooseNumAdditional ==
    /\ pc = "build" /\ stack # <<>>
    /\ \/ Top.pos = "num"
       \/ /\ Top.pos = "enter"
          /\ TopNode.depth < config.depth
          /\ ~IsTreasureNode(TopNode)
    /\ \E k \in 1..config.branching_factor :
         /\ k - 1 <= Budget
         /\ stack' = SetTop([Top EXCEPT !.pos = "loop", !.remaining = k])
         /\ extras' = extras + (k - 1)
    /\ UNCHANGED <<config, treasure_path, all_nodes, pc, cursor, error,
                   sink_log, base_exists, calls>>

\* child_name = random.choice(location_pool), first draw of an iteration
DrawName ==
    /\ pc = "build" /\ stack # <<>>
    /\ Top.pos = "loop" /\ Top.remaining > 0
    /\ \E name \in Range(LocationPool) :
         stack' = SetTop([Top EXCEPT !.pos = "retry", !.child_name = name])
    /\ UNCHANGED <<config, treasure_path, all_nodes, pc, cursor, error,
                   sink_log, base_exists, calls, extras>>

\* while child_name in existing_names: child_name = random.choice(location_pool)
Redraw ==
    /\ pc = "build" /\ stack # <<>>
    /\ Top.pos = "retry"
    /\ Top.child_name \in ExistingNames(TopNode)
    /\ \E name \in Range(LocationPool) :
         stack' = SetTop([Top EXCEPT !.child_name = name])
    /\ UNCHANGED <<config, treasure_path, all_nodes, pc, cursor, error,
                   sink_log, base_exists, calls, extras>>

\* the decoy is created and appended; the recursion draw decides whether
\* _build_maze_tree(child) is called
CreateDecoy ==
    /\ pc = "build" /\ stack # <<>>
    /\ Top.pos = "retry"
    /\ Top.child_name \notin ExistingNames(TopNode)
    /\ \E herring \in Bernoulli(config.red_herring_ratio), grow \in GrowDraw(TopNode) :
         LET c == Len(all_nodes) + 1
             cost == Cost(config.red_herring_ratio, herring) + Cost("mid", grow)
             back == SetTop([Top EXCEPT !.pos = "loop", !.remaining = @ - 1,
                                        !.child_name = NoName])
         IN
           /\ cost <= Budget
           /\ all_nodes' = Append(
                 [all_nodes EXCEPT ![Top.node].children = Append(@, c)],
                 DecoyChild(TopNode, Top.child_name, herring))
           /\ stack' = IF grow THEN Append(back, Frame(c)) ELSE back
           /\ extras' = extras + cost
    /\ UNCHANGED <<config, treasure_path, pc, cursor, error, sink_log,
                   base_exists, calls>>

\* the for loop is exhausted: _build_maze_tree returns; the outermost
\* return hands over to _add_puzzles_and_clues
BuildLoopEnd ==
    /\ pc = "build" /\ stack # <<>>
    /\ Top.pos = "loop" /\ Top.remaining = 0
    /\ stack' = Pop
    /\ UNCHANGED <<config, treasure_path, all_nodes, pc, cursor, error,
                   sink_log, base_exists, calls, extras>>

BuildDone ==
    /\ pc = "build" /\ stack = <<>>
    /\ pc' = "clues"
    /\ cursor' = 1
    /\ UNCHANGED <<config, treasure_path, all_nodes, stack, error, sink_log,
                   base_exists, calls, extras>>

----------------------------------------------------------------------------
(* _add_puzzles_and_clues *)

Indices(s) == [i \in 1..Len(s) |-> i]
IsFlagged(i) == all_nodes[i].is_treasure_path
IsHerring(i) == all_nodes[i].red_herring

\* treasure_nodes = [node for node in self.all_nodes if node.is_treasure_path]
TreasureNodes == SelectSeq(Indices(all_nodes), IsFlagged)

\* _choose_puzzle_type: the list random.choice draws from
AvailableTypes ==
    (IF config.enable_coordinates THEN {"coordinates"} ELSE {})
    \cup (IF config.enable_riddles THEN {"riddle"} ELSE {})
    \cup (IF config.enable_math THEN {"math"} ELSE {})
    \cup {"pattern", "logic"}

\* _generate_coordinate_clue: the two tokens the templates embed
CoordinateTokens(target) ==
    IF Len(target.path) >= 2
    THEN <<target.path[Len(target.path) - 1], target.path[Len(target.path)]>>
    ELSE <<"target", target.name>>

\* _generate_clue: the clue text is represented by its puzzle type and the
\* tokens of the target node its template embeds (the wording is left out)
GenerateClue(puzzle_type, target) ==
    [kind |-> puzzle_type,
     tokens |-> IF puzzle_type = "coordinates" THEN CoordinateTokens(target)
                ELSE <<target.name>>]

ClueFile(puzzle_type) == "clue_" \o puzzle_type \o ".txt"
ClueFiles == {ClueFile(t) : t \in PuzzleTypes}

\* the fixed texts (welcome, rules, treasure payload, red-herring files):
\* only their kind is kept, the wording and the treasure name drawn into
\* it are left out
Text(kind) == [kind |-> kind, tokens |-> <<>>]

\* one iteration of: for i, node in enumerate(treasure_nodes[:-1])
ClueStep ==
    /\ pc = "clues"
    /\ cursor <= Len(TreasureNodes) - 1
    /\ \E hit \in Bernoulli(config.puzzle_density), puzzle_type \in AvailableTypes :
         LET n == TreasureNodes[cursor]
             next_node == all_nodes[TreasureNodes[cursor + 1]]
             clue == GenerateClue(puzzle_type, next_node)
             cost == Cost(config.puzzle_density, hit)
         IN
           /\ cost <= Budget
           /\ all_nodes' =
                IF hit
                THEN [all_nodes EXCEPT
                        ![n].puzzle_type = puzzle_type,
                        ![n].clue_content = clue.tokens,
                        ![n].files = DictPut(@, ClueFile(puzzle_type), clue)]
                ELSE all_nodes
           /\ extras' = extras + cost
    /\ cursor' = cursor + 1
    /\ UNCHANGED <<config, treasure_path, pc, stack, error, sink_log,
                   base_exists, calls>>

\* entrance = self.all_nodes[0] receives welcome.txt and rules.txt
WithWelcome(nodes) ==
    [nodes EXCEPT ![1].files =
        DictPut(DictPut(@, "welcome.txt", Text("welcome")), "rules.txt", Text("rules"))]

\* final_node = treasure_nodes[-1]
FinalNodeIndex == TreasureNodes[Len(TreasureNodes)]

TreasureFile == TreasureName \o ".txt"

\* after the loop: the entrance files, then the treasure file on
\* treasure_nodes[-1]; indexing an empty list raises IndexError
ClueFinish ==
    /\ pc = "clues"
    /\ cursor > Len(TreasureNodes) - 1
    /\ IF TreasureNodes = <<>>
       THEN /\ all_nodes' = WithWelcome(all_nodes)
            /\ pc' = "raised"
            /\ error' = "IndexError"
       ELSE /\ all_nodes' = [WithWelcome(all_nodes) EXCEPT ![FinalNodeIndex].files =
                                DictPut(@, TreasureFile, Text("treasure"))]
            /\ pc' = "herrings"
            /\ error' = error
    /\ cursor' = 1
    /\ UNCHANGED <<config, treasure_path, stack, sink_log, base_exists, calls, extras>>

----------------------------------------------------------------------------
(* _add_red_herrings *)

\* red_herring_nodes = [node for node in self.all_nodes if node.red_herring]
RedHerringNodes == SelectSeq(Indices(all_nodes), IsHerring)

\* random.randint(1, 9): the two ends of the range
MisleadingNumbers == {1, 9}

MisleadingFile(n) == "misleading_clue_" \o ToString(n) \o ".txt"

\* one iteration of: for node in red_herring_nodes (two independent draws)
HerringStep ==
    /\ pc = "herrings"
    /\ cursor <= Len(RedHerringNodes)
    /\ \E fake \in BOOLEAN, fake_treasure \in Range(FakeTreasures),
          misleading \in BOOLEAN, number \in MisleadingNumbers :
         LET n == RedHerringNodes[cursor]
             f1 == IF fake
                   THEN DictPut(all_nodes[n].files, fake_treasure, Text("fake"))
                   ELSE all_nodes[n].files
             f2 == IF misleading
                   THEN DictPut(f1, MisleadingFile(number), Text("misleading"))
                   ELSE f1
             cost == Cost("mid", fake) + Cost("mid", misleading)
         IN
           /\ cost <= Budget
           /\ all_nodes' = [all_nodes EXCEPT ![n].files = f2]
           /\ extras' = extras + cost
    /\ cursor' = cursor + 1
    /\ UNCHANGED <<config, treasure_path, pc, stack, error, sink_log,
                   base_exists, calls>>

----------------------------------------------------------------------------
(* _create_file_system: the sink operations in the order they are issued *)

Mkdir(path) == [op |-> "mkdir", path |-> path, file |-> ""]
WriteText(path, file) == [op |-> "write", path |-> path, file |-> file]
Rmtree == [op |-> "rmtree", path |-> <<>>, file |-> ""]

\* for filename, content in node.files.items(): write_text
WriteFiles(node, current_path) ==
    [i \in 1..Len(node.files) |-> WriteText(current_path, node.files[i].name)]

RECURSIVE create_node(_, _)
RECURSIVE CreateChildren(_, _, _)

\* for child in node.children: create_node(child, current_path / child.name)
CreateChildren(n, k, current_path) ==
    IF k > Len(all_nodes[n].children) THEN <<>>
    ELSE LET child == all_nodes[n].children[k] IN
           create_node(child, Append(current_path, all_nodes[child].name))
           \o CreateChildren(n, k + 1, current_path)

\* create_node: mkdir, then the node's files, then the children
create_node(n, current_path) ==
    <<Mkdir(current_path)>>
    \o WriteFiles(all_nodes[n], current_path)
    \o CreateChildren(n, 1, current_path)

\* if base_path.exists(): shutil.rmtree(base_path)
CleanUp == IF base_exists THEN <<Rmtree>> ELSE <<>>

CreateFileSystem ==
    /\ pc = "herrings"
    /\ cursor > Len(RedHerringNodes)
    /\ sink_log' = CleanUp \o create_node(1, <<>>)
    /\ base_exists' = TRUE
    /\ pc' = "done"
    /\ UNCHANGED <<config, treasure_path, all_nodes, stack, cursor, error,
                   calls, extras>>

----------------------------------------------------------------------------
(* Specifications *)

ConfigOf(depth, branching, ratio, density, coords, riddles, math) ==
    [depth |-> depth, branching_factor |-> branching,
     red_herring_ratio |-> ratio, puzzle_density |-> density,
     enable_coordinates |-> coords, enable_riddles |-> riddles,
     enable_math |-> math]

\* MazeConfig values explored by Spec; coordinate clues are enabled where
\* the clue draw is a budgeted one (0 < puzzle_density < 1)
Configs ==
    {c \in {ConfigOf(d, b, r, p, t, FALSE, FALSE) :
                d \in 1..MaxDepth, b \in 1..MaxBranching, r \in Levels,
                p \in Levels, t \in BOOLEAN} :
        c.enable_coordinates => c.puzzle_density = "mid"}

\* deep mazes, one decoy per node: the depths at which the recursion draw of
\* _build_maze_tree stops succeeding
DeepConfigs ==
    {ConfigOf(d, 1, "mid", "zero", FALSE, FALSE, FALSE) :
        d \in 5..MaxDeepDepth}

\* configurations of the termination check
FairConfigs ==
    {ConfigOf(d, b, "mid", "one", FALSE, FALSE, FALSE) :
        d \in 1..MaxDepth, b \in 1..MaxBranching}

\* ProceduralMazeGenerator.__init__
Constructed ==
    /\ treasure_path = <<>>
    /\ all_nodes = <<>>
    /\ pc = "idle"
    /\ stack = <<>>
    /\ cursor = 1
    /\ error = "none"
    /\ sink_log = <<>>
    /\ base_exists = FALSE
    /\ calls = 0
    /\ extras = 0

Init == config \in Configs /\ Constructed

Next ==
    \/ GenerateMaze
    \/ BuildReturn
    \/ BuildTreasureChild
    \/ ChooseNumAdditional
    \/ DrawName
    \/ Redraw
    \/ CreateDecoy
    \/ BuildLoopEnd
    \/ BuildDone
    \/ ClueStep
    \/ ClueFinish
    \/ HerringStep
    \/ CreateFileSystem

Spec == Init /\ [][Next]_vars

DeepInit == config \in DeepConfigs /\ Constructed
DeepSpec == DeepInit /\ [][Next]_vars

\* a redraw that lands on a name no sibling uses: random.choice gives every
\* pool name a positive probability, so a free name is drawn eventually
RedrawFree ==
    /\ Redraw
    /\ stack'[Len(stack')].child_name \notin ExistingNames(TopNode)

\* the interpreter keeps executing: every enabled step is eventually taken
Fairness == WF_vars(Next) /\ WF_vars(RedrawFree)

FairInit == config \in FairConfigs /\ Constructed
FairSpec == FairInit /\ [][Next]_vars /\ Fairness

----------------------------------------------------------------------------
(* Vocabulary of the properties *)

Nodes == DOMAIN all_nodes
Returned == pc = "done"
Flagged == {i \in Nodes : all_nodes[i].is_treasure_path}
Decoys == {i \in Nodes : i # 1 /\ ~all_nodes[i].is_treasure_path}
ChildrenOf(i) == {all_nodes[i].children[k] : k \in DOMAIN all_nodes[i].children}
HasParent(i) == \E j \in Nodes : i \in ChildrenOf(j)
ParentOf(i) == CHOOSE j \in Nodes : i \in ChildrenOf(j)

\* the node reached from the root by following get_solution_path()[0..k]
RECURSIVE OnPath(_)
OnPath(k) ==
    IF k = 0 THEN 1
    ELSE CHOOSE c \in ChildrenOf(OnPath(k - 1)) :
            all_nodes[c].name = get_solution_path[k + 1]

\* the treasure path is fully realised in the tree
PathBuilt ==
    /\ all_nodes # <<>>
    /\ \A k \in 1..(Len(get_solution_path) - 1) :
         \E c \in ChildrenOf(OnPath(k - 1)) :
            all_nodes[c].name = get_solution_path[k + 1]

ClueEntries(i) ==
    {j \in DOMAIN all_nodes[i].files : all_nodes[i].files[j].name \in ClueFiles}

\* valid configuration: depth >= 1, 1 <= branching_factor < size of the decoy pool
ValidConfig ==
    /\ config.depth >= 1
    /\ config.branching_factor >= 1
    /\ config.branching_factor < Cardinality(Range(LocationPool))

----------------------------------------------------------------------------
(* C1: after generate_maze returns, exactly one node per depth in          *)
(* [0, config.depth) is flagged is_treasure_path, the root is one of them, *)
(* the parent of every flagged node is flagged, and no node of a decoy     *)
(* subtree is flagged.                                                     *)
C1_SingleFlaggedChain ==
    Returned =>
        /\ all_nodes[1].is_treasure_path
        /\ \A d \in 0..(config.depth - 1) :
             Cardinality({i \in Flagged : all_nodes[i].depth = d}) = 1
        /\ \A i \in Flagged : all_nodes[i].depth < config.depth
        /\ \A i \in Flagged : HasParent(i) => ParentOf(i) \in Flagged

(* C2: after generate_maze returns, the node at depth config.depth - 1     *)
(* reached from the root along get_solution_path() owns exactly one file,  *)
(* the treasure payload <treasure_name>.txt.                               *)
C2_FinalNodeOwnsTreasure ==
    Returned =>
        /\ PathBuilt
        /\ LET final == all_nodes[OnPath(config.depth - 1)] IN
             /\ Len(final.files) = 1
             /\ final.files[1].name = TreasureFile
             /\ final.files[1].content = Text("treasure")

(* C3: every clue file sits on the treasure-path node of some index i in   *)
(* [0, config.depth - 1), never on the final chamber or off the path, and  *)
(* its text is generated from the child named treasure_path[i+1].          *)
C3_CluesPointToNextPathNode ==
    \A i \in Nodes : \A j \in ClueEntries(i) :
        /\ PathBuilt
        /\ \E k \in 0..(config.depth - 2) :
             /\ OnPath(k) = i
             /\ all_nodes[i].files[j].content =
                  GenerateClue(all_nodes[i].files[j].content.kind,
                               all_nodes[OnPath(k + 1)])

(* C4: for every valid configuration generate_maze raises no error.        *)
C4_ValidConfigNeverRaises ==
    ValidConfig => (pc # "raised" /\ error = "none")

(* C5: in every state during and after generate_maze no node has both     *)
(* is_treasure_path and red_herring set.                                   *)
C5_NeverTreasureAndHerring ==
    \A i \in Nodes : ~(all_nodes[i].is_treasure_path /\ all_nodes[i].red_herring)

C5_Witness ==
    /\ Returned
    /\ \E i \in Nodes : all_nodes[i].red_herring /\ all_nodes[i].files # <<>>
    /\ \E i \in Nodes : all_nodes[i].is_treasure_path /\ ClueEntries(i) # {}

(* C6: once the treasure path has been planned, get_solution_path() has    *)
(* length config.depth and starts with "entrance"; a second generate_maze  *)
(* call replaces the path instead of appending to it.                      *)
C6_SolutionPathLength ==
    pc # "idle" =>
        /\ Len(get_solution_path) = config.depth
        /\ get_solution_path[1] = "entrance"

C6_Witness ==
    /\ calls = 2
    /\ Returned
    /\ config.depth = 3
    /\ Len(get_solution_path) = 3

(* C7: with puzzle_density = 1, after generate_maze every treasure-path    *)
(* node of index i in [0, config.depth - 1), the entrance included, holds  *)
(* clue_<type>.txt and has puzzle_type set to that type.                   *)
C7_FullDensityCluesEveryPathNode ==
    (Returned /\ config.puzzle_density = "one") =>
        /\ PathBuilt
        /\ \A k \in 0..(config.depth - 2) :
             LET node == all_nodes[OnPath(k)] IN
               /\ node.puzzle_type \in PuzzleTypes
               /\ ClueFile(node.puzzle_type) \in FileNames(node)

(* C8: generation always terminates: once generate_maze is running it      *)
(* eventually returns or raises, also when branching_factor reaches the    *)
(* size of the decoy-name pool.                                            *)
C8_GenerationTerminates ==
    (pc = "build") ~> (pc \in {"done", "raised"})

(* C9 as stated: a decoy (is_treasure_path = false) whose own depth is     *)
(* >= 5 never has children.                                                *)
C9_DecoyAtDepth5IsLeaf ==
    \A i \in Decoys : all_nodes[i].depth >= 5 => all_nodes[i].children = <<>>

(* C9 amended: the recursion draw is made against the depth of the node    *)
(* being expanded, so a decoy whose parent is at depth >= 5, that is a     *)
(* decoy of own depth >= 6, never has children.                            *)
C9_DecoyBelowDepth5ParentIsLeaf ==
    \A i \in Decoys : all_nodes[i].depth >= 6 => all_nodes[i].children = <<>>

C9_Witness ==
    /\ Returned
    /\ config.depth >= 7
    /\ \E i \in Decoys : all_nodes[i].depth = 6
    /\ \E i \in Decoys : all_nodes[i].depth = 5 /\ all_nodes[i].children # <<>>

(* Vocabulary of the render-pass property *)
LogOps(op) == {j \in DOMAIN sink_log : sink_log[j].op = op}
NodePaths == {all_nodes[i].path : i \in Nodes}
NodeFiles ==
    UNION {{<<all_nodes[i].path, f>> : f \in FileNames(all_nodes[i])} : i \in Nodes}
MkdirPos(i) ==
    CHOOSE j \in LogOps("mkdir") : sink_log[j].path = all_nodes[i].path
RECURSIVE FileCount(_)
FileCount(i) == IF i = 0 THEN 0 ELSE Len(all_nodes[i].files) + FileCount(i - 1)

(* C10: in the render pass the base location is cleared before any         *)
(* directory is created, every node's directory is created exactly once,   *)
(* before its files are written and before its children's directories,     *)
(* every (node, filename) pair is written exactly once, and no two nodes   *)
(* render to the same directory path.                                      *)
C10_RenderOrder ==
    Returned =>
        /\ \A j \in LogOps("rmtree") : j = 1
        /\ calls >= 2 => LogOps("rmtree") = {1}
        \* no two nodes render to the same directory
        /\ Cardinality(NodePaths) = Len(all_nodes)
        \* one mkdir per node
        /\ Cardinality(LogOps("mkdir")) = Len(all_nodes)
        /\ {sink_log[j].path : j \in LogOps("mkdir")} = NodePaths
        \* one write per (node, filename)
        /\ Cardinality(LogOps("write")) = FileCount(Len(all_nodes))
        /\ {<<sink_log[j].path, sink_log[j].file>> : j \in LogOps("write")} = NodeFiles
        \* a node's directory precedes its files and its children's directories
        /\ \A j \in LogOps("write") :
             \E m \in LogOps("mkdir") :
                m < j /\ sink_log[m].path = sink_log[j].path
        /\ \A i \in Nodes : \A c \in ChildrenOf(i) : MkdirPos(i) < MkdirPos(c)

C10_Witness ==
    /\ Returned
    /\ calls = 2
    /\ \E i \in Nodes :
         /\ Len(all_nodes[i].children) >= 2
         /\ Len(all_nodes[i].files) >= 2
    /\ \E i \in Nodes : i # 1 /\ all_nodes[i].children # <<>> /\ all_nodes[i].files # <<>>

====
